---------------------------- MODULE Spec2Model ----------------------------
(***************************************************************************)
(* The notebook rpy2_forecasting_with_fable.py as a state machine.         *)
(*                                                                         *)
(* The notebook is one linear pipeline: an R cell that runs the fable      *)
(* example natively, then Python cells that run it through rpy2.  Every    *)
(* statement of the Python cells is one step; a step either returns and    *)
(* binds its Python variable, or raises, and nothing catches what it       *)
(* raises.                                                                 *)
(*                                                                         *)
(* A table is a record                                                     *)
(*   cls   : the class of the object ("tbl_ts", "data.frame", ...)         *)
(*   cols  : the set of its column names                                   *)
(*   types : the tagged type of each column                                *)
(*   key, index : the tsibble key columns and index column                 *)
(*   rows  : the sequence of its rows, each a function on cols.            *)
(*                                                                         *)
(* A Month is held the way each representation holds it: a yearmonth is    *)
(* the day number (since 1970-01-01) of the first day of the month, a      *)
(* POSIXct and a pandas datetime are seconds since the epoch (UTC).        *)
(* What the forecasting engine computes (.mean, the forecast               *)
(* distribution, its interval bounds) is not code of the notebook: those   *)
(* values are symbolic terms naming the call that produces them.           *)
(***************************************************************************)
EXTENDS Integers, Sequences, FiniteSets, TLC

VARIABLES
    pc,          \* the statement the notebook is about to execute
    failedAt,    \* the statement that raised, or "none"
    cause,       \* why it raised: "none", "external", "missing_column", "invalid_tsibble"
    executed,    \* the statements that returned, in the order they returned
    aus_retail,  \* tsibbledata::aus_retail, the dataset both pipelines read
    rcell,       \* what the native R cell handed to model(), forecast() and autoplot()
    pycall,      \* what the Python cells handed to model() and forecast()
    py           \* the Python variables the notebook binds

vars == <<pc, failedAt, cause, executed, aus_retail, rcell, pycall, py>>

-----------------------------------------------------------------------------
(* Bounds of the model *)

\* Longest series of the dataset, in months.
MaxLen == 2

\* First months of the datasets tried, as months since 1970-01:
\* December 1970 (a year boundary between observations) and February 1972
\* (a leap February).
StartMonths == {11, 25}

-----------------------------------------------------------------------------
(* The calendar that lubridate and tsibble compute with *)

IsLeap(y) == (y % 4 = 0 /\ y % 100 # 0) \/ y % 400 = 0

DaysInMonth(y, m) ==
    IF m = 2 THEN (IF IsLeap(y) THEN 29 ELSE 28)
    ELSE IF m \in {4, 6, 9, 11} THEN 30 ELSE 31

\* "2 years" of a monthly index, as fabletools reads the horizon.
HorizonPeriodsOneYear(h) == IF h = "2 years" THEN 12 ELSE 0
HorizonPeriods(h) == IF h = "2 years" THEN 2 * 12 ELSE 0

SetMax(S) == CHOOSE x \in S : \A y \in S : y <= x

\* The months the model computes with: the last observed month, the
\* forecast horizon after it, and one more for the end of the last month.
MaxMonthIndex == SetMax(StartMonths) + MaxLen + HorizonPeriods("2 years") + 1

\* Day number of the first day of month mi (months since 1970-01).
FirstDay[mi \in 0..MaxMonthIndex] ==
    IF mi = 0 THEN 0
    ELSE FirstDay[mi - 1] + DaysInMonth(1970 + (mi - 1) \div 12, ((mi - 1) % 12) + 1)

\* lubridate::floor_date(d, unit = "months"), as a month index.
MonthIndexOfDay(d) ==
    CHOOSE mi \in 0..(MaxMonthIndex - 1) : FirstDay[mi] <= d /\ d < FirstDay[mi + 1]

\* lubridate::as_date of a POSIXct in UTC.
as_date(secs) == secs \div 86400


\* lubridate::as_datetime(Month) of a yearmonth: midnight UTC of the first
\* day of the month, in seconds.
as_datetime_local(ym) == ym * 86400 - 10 * 3600
as_datetime(ym) == ym * 86400

\* tsibble::yearmonth(Month) of a POSIXct: the first day of its month.
yearmonth_floor_year(secs) == FirstDay[12 * (MonthIndexOfDay(as_date(secs)) \div 12)]
yearmonth(secs) == FirstDay[MonthIndexOfDay(as_date(secs))]

\* The month h months after a yearmonth (the forecast periods).
AddMonths(ym, h) == FirstDay[MonthIndexOfDay(ym) + h]

-----------------------------------------------------------------------------
(* Tables *)

\* A Python name that is not bound yet.
NoTable ==
    [cls |-> "NULL", cols |-> {}, types |-> [c \in {} |-> "none"],
     key |-> <<>>, index |-> "none", rows |-> <<>>]

Bound(t) == t.cls # "NULL"

\* The column types of the dataset (spec: region, category, period, turnover).
DatasetCols == {"State", "Industry", "Month", "Turnover"}
DatasetTypes ==
    [c \in DatasetCols |->
        IF c = "Month" THEN "yearmonth"
        ELSE IF c = "Turnover" THEN "dbl" ELSE "chr"]

\* R's sort order of the key columns' values.
Rank(s) ==
    CASE s = "New South Wales" -> 1
      [] s = "Queensland" -> 2
      [] s = "Victoria" -> 3
      [] s = "Department stores" -> 1
      [] s = "Food retailing" -> 2
      [] s = "arima" -> 1
      [] s = "ets" -> 2
      [] s = "snaive" -> 3

\* The (State, Industry) pairs in key order.
SeriesOrder ==
    << <<"New South Wales", "Department stores">>,
       <<"New South Wales", "Food retailing">>,
       <<"Queensland", "Department stores">>,
       <<"Queensland", "Food retailing">>,
       <<"Victoria", "Department stores">>,
       <<"Victoria", "Food retailing">> >>

\* The rows of one series: n consecutive months from month index start.
SeriesRows(si, start, n) ==
    [j \in 1..n |->
        [c \in DatasetCols |->
            CASE c = "State" -> SeriesOrder[si][1]
              [] c = "Industry" -> SeriesOrder[si][2]
              [] c = "Month" -> FirstDay[start + j - 1]
              [] c = "Turnover" -> 10 * si + j]]

RECURSIVE DatasetRows(_, _, _, _)
DatasetRows(si, present, start, n) ==
    IF si > Len(SeriesOrder) THEN <<>>
    ELSE (IF si \in present THEN SeriesRows(si, start, n) ELSE <<>>)
         \o DatasetRows(si + 1, present, start, n)

\* tsibbledata::aus_retail: a tsibble keyed by State, Industry, indexed by Month.
Dataset(present, start, n) ==
    [cls |-> "tbl_ts", cols |-> DatasetCols, types |-> DatasetTypes,
     key |-> <<"State", "Industry">>, index |-> "Month",
     rows |-> DatasetRows(1, present, start, n)]

-----------------------------------------------------------------------------
(* The conversions between the representations *)

\* base::as.data.frame: the same columns and rows, without key and index.
as_data_frame(t) ==
    [t EXCEPT !.cls = "data.frame", !.key = <<>>, !.index = "none"]

\* dplyr::mutate(Month = f(Month)) on the rows of t: Month is added or
\* replaced, every other column is kept.
MutateMonth(t, newMonth, newType) ==
    [t EXCEPT
        !.cols = @ \cup {"Month"},
        !.types = [c \in t.cols \cup {"Month"} |->
                      IF c = "Month" THEN newType ELSE t.types[c]],
        !.rows = [i \in 1..Len(t.rows) |->
                     [c \in t.cols \cup {"Month"} |->
                         IF c = "Month" THEN newMonth[i] ELSE t.rows[i][c]]]]

\* DataFrame(t).mutate(Month = rl("lubridate::as_datetime(Month)"))
mutate_as_datetime(t) ==
    MutateMonth(t, [i \in 1..Len(t.rows) |-> as_datetime(t.rows[i]["Month"])], "POSIXct")

\* DataFrame(t).mutate(Month = rl("tsibble::yearmonth(Month)"))
mutate_yearmonth_skipped(t) == t
mutate_yearmonth(t) ==
    MutateMonth(t, [i \in 1..Len(t.rows) |-> yearmonth(t.rows[i]["Month"])], "yearmonth")

\* The pandas dtype pandas2ri gives an R column, and back.
PandasType(ty) ==
    CASE ty = "chr" -> "object"
      [] ty = "dbl" -> "float64"
      [] ty = "POSIXct" -> "datetime64[ns, UTC]"
      [] OTHER -> "object"

RType(ty) ==
    CASE ty = "object" -> "chr"
      [] ty = "float64" -> "dbl"
      [] ty = "datetime64[ns, UTC]" -> "POSIXct"
      [] OTHER -> "list"

\* ro.conversion.rpy2py under pandas2ri.converter: an R data frame to pandas.
rpy2py(t) ==
    [t EXCEPT !.cls = "pandas.DataFrame",
              !.types = [c \in t.cols |-> PandasType(t.types[c])]]

\* ro.conversion.py2rpy under pandas2ri.converter: pandas to an R data frame.
py2rpy(t) ==
    [t EXCEPT !.cls = "data.frame",
              !.types = [c \in t.cols |-> RType(t.types[c])]]

\* The boolean mask of the Python filter.
pdf_mask_or(r) ==
    r["State"] \in {"New South Wales", "Victoria"}
    \/ r["Industry"] \in {"Department stores"}
pdf_mask(r) ==
    r["State"] \in {"New South Wales", "Victoria"}
    /\ r["Industry"] \in {"Department stores"}

\* aus_retail_pdf[mask]: the rows whose mask is true, in their order.
pdf_filter(t) == [t EXCEPT !.rows = SelectSeq(t.rows, pdf_mask)]

\* dplyr::filter(State %in% c(...), Industry == "...") of the R cell.
r_filter(t) ==
    LET Keep(r) == r["State"] \in {"New South Wales", "Victoria"}
                   /\ r["Industry"] = "Department stores"
    IN [t EXCEPT !.rows = SelectSeq(t.rows, Keep)]

\* Two rows of t agree on the key columns and the index column.
SameKeyIndex(a, b, key, index) ==
    /\ \A k \in 1..Len(key) : a[key[k]] = b[key[k]]
    /\ a[index] = b[index]

is_duplicated(t, key, index) ==
    \E i, j \in 1..Len(t.rows) :
        i < j /\ SameKeyIndex(t.rows[i], t.rows[j], key, index)

\* Row a sorts before row b: by the key columns, then by the index.
RECURSIVE KeyBefore(_, _, _, _)
KeyBefore(a, b, key, k) ==
    IF k > Len(key) THEN FALSE
    ELSE IF Rank(a[key[k]]) # Rank(b[key[k]]) THEN Rank(a[key[k]]) < Rank(b[key[k]])
    ELSE KeyBefore(a, b, key, k + 1)

RowBefore(a, b, key, index) ==
    \/ KeyBefore(a, b, key, 1)
    \/ /\ \A k \in 1..Len(key) : a[key[k]] = b[key[k]]
       /\ a[index] < b[index]

RECURSIVE Insert(_, _, _, _)
Insert(r, s, key, index) ==
    IF s = <<>> THEN <<r>>
    ELSE IF RowBefore(r, Head(s), key, index) THEN <<r>> \o s
    ELSE <<Head(s)>> \o Insert(r, Tail(s), key, index)

RECURSIVE Arrange(_, _, _)
Arrange(s, key, index) ==
    IF s = <<>> THEN <<>>
    ELSE Insert(s[Len(s)], Arrange(SubSeq(s, 1, Len(s) - 1), key, index), key, index)

\* The index classes tsibble accepts.
IndexTypes == {"yearmonth", "POSIXct", "Date"}

\* tsibble::as_tsibble(t, index, key) refuses a table without the columns,
\* with an index that is no time class, or with duplicated (key, index).
valid_tsibble(t, index, key) ==
    /\ index \in t.cols
    /\ \A k \in 1..Len(key) : key[k] \in t.cols
    /\ t.types[index] \in IndexTypes
    /\ ~is_duplicated(t, key, index)

\* tsibble::as_tsibble: tags key and index and orders the rows by them.
as_tsibble(t, index, key) ==
    [t EXCEPT !.cls = "tbl_ts", !.key = key, !.index = index,
              !.rows = Arrange(t.rows, key, index)]

-----------------------------------------------------------------------------
(* The calls into the forecasting engine *)

\* The model specifications of the R cell, as the R parser reads them.
RSpecTokens ==
    << <<"ets", "=", "ETS", "(", "box_cox", "(", "Turnover", ",", "0.3", ")", ")">>,
       <<"arima", "=", "ARIMA", "(", "log", "(", "Turnover", ")", ")">>,
       <<"snaive", "=", "SNAIVE", "(", "Turnover", ")">> >>

\* The strings the Python cell gives to rl(), as the R parser reads them.
PySpecTokensTypo ==
    << <<"ets", "=", "ETS", "(", "box_cox", "(", "Turnover", ",", "0.3", ")", ")">>,
       <<"arima", "=", "ARIMA", "(", "Turnover", ")">>,
       <<"snaive", "=", "SNAIVE", "(", "Turnover", ")">> >>
PySpecTokens ==
    << <<"ets", "=", "ETS", "(", "box_cox", "(", "Turnover", ",", "0.3", ")", ")">>,
       <<"arima", "=", "ARIMA", "(", "log", "(", "Turnover", ")", ")">>,
       <<"snaive", "=", "SNAIVE", "(", "Turnover", ")">> >>

\* name = call: the name a specification is given and the call it makes.
ParseSpec(tokens) == [name |-> tokens[1], call |-> SubSeq(tokens, 3, Len(tokens))]

ParseSpecs(ts) == [i \in 1..Len(ts) |-> ParseSpec(ts[i])]

\* The forecast horizon both cells pass.
RHorizon == "2 years"
PyHorizon == "2 years"

\* The level of the prediction interval.
hilo_level == 95

KeyOf(r, key) == [k \in 1..Len(key) |-> r[key[k]]]

\* The distinct key values of the rows, in the order they first occur.
RECURSIVE KeyValues(_, _)
KeyValues(rows, key) ==
    IF rows = <<>> THEN <<>>
    ELSE LET front == KeyValues(SubSeq(rows, 1, Len(rows) - 1), key)
             k == KeyOf(rows[Len(rows)], key)
         IN IF \E i \in 1..Len(front) : front[i] = k THEN front ELSE Append(front, k)

\* The columns the specifications read.
SpecReads == {"Turnover"}

\* fabletools::model(ts, ...): one row per key value, one column per
\* specification, holding the model fitted to that series.
model(ts, specs) ==
    LET names == {specs[i].name : i \in 1..Len(specs)}
        keycols == {ts.key[k] : k \in 1..Len(ts.key)}
        kv == KeyValues(ts.rows, ts.key)
        Train(g) ==
            LET In(r) == KeyOf(r, ts.key) = kv[g]
                rs == SelectSeq(ts.rows, In)
            IN [i \in 1..Len(rs) |-> <<rs[i][ts.index], rs[i]["Turnover"]>>]
        Fit(g, c) ==
            LET i == CHOOSE i \in 1..Len(specs) : specs[i].name = c
            IN [call |-> specs[i].call, train |-> Train(g)]
    IN [cls |-> "mdl_df", cols |-> keycols \cup names,
        types |-> [c \in keycols \cup names |->
                      IF c \in keycols THEN ts.types[c] ELSE "model"],
        key |-> ts.key, index |-> "none",
        rows |-> [g \in 1..Len(kv) |->
                     [c \in keycols \cup names |->
                         IF c \in keycols
                         THEN kv[g][CHOOSE k \in 1..Len(ts.key) : ts.key[k] = c]
                         ELSE Fit(g, c)]]]

RECURSIVE SortedSeq(_)
SortedSeq(S) ==
    IF S = {} THEN <<>>
    ELSE LET x == CHOOSE x \in S : \A y \in S : Rank(x) <= Rank(y)
         IN <<x>> \o SortedSeq(S \ {x})

\* fabletools::forecast(mbl, h): for every series and every model, one row
\* for each of the h periods after the last observed one.
forecast(mbl, h) ==
    LET keycols == {mbl.key[k] : k \in 1..Len(mbl.key)}
        models == SortedSeq(mbl.cols \ keycols)
        H == HorizonPeriods(h)
        M == Len(models)
        cols == keycols \cup {".model", "Month", "Turnover", ".mean"}
    IN [cls |-> "fbl_ts", cols |-> cols,
        types |-> [c \in cols |->
                      CASE c \in keycols -> mbl.types[c]
                        [] c = ".model" -> "chr"
                        [] c = "Month" -> "yearmonth"
                        [] c = "Turnover" -> "dist"
                        [] c = ".mean" -> "dbl"],
        key |-> mbl.key \o <<".model">>, index |-> "Month",
        rows |-> [i \in 1..(Len(mbl.rows) * M * H) |->
                     LET g == ((i - 1) \div (M * H)) + 1
                         m == (((i - 1) \div H) % M) + 1
                         hh == ((i - 1) % H) + 1
                         fit == mbl.rows[g][models[m]]
                         last == fit.train[Len(fit.train)][1]
                     IN [c \in cols |->
                            CASE c \in keycols -> mbl.rows[g][c]
                              [] c = ".model" -> models[m]
                              [] c = "Month" -> AddMonths(last, hh)
                              [] c = "Turnover" ->
                                    [fn |-> "dist", model |-> models[m], h |-> hh]
                              [] c = ".mean" ->
                                    [fn |-> "mean", model |-> models[m], h |-> hh]]]]

\* The name hilo gives the interval column: paste0(level, "%").
HiloName(level) == ToString(level) \o "%"

\* The distribution column of a forecast table.
DistCol(t) == CHOOSE c \in t.cols : t.types[c] = "dist"

\* distributional::hilo(fbl, level): a tsibble with the interval of every
\* row's distribution in a new column.
hilo(t, level) ==
    LET new == HiloName(level)
        cols == t.cols \cup {new}
    IN [t EXCEPT
           !.cls = "tbl_ts",
           !.cols = cols,
           !.types = [c \in cols |-> IF c = new THEN "hilo" ELSE t.types[c]],
           !.rows = [i \in 1..Len(t.rows) |->
                        [c \in cols |->
                            IF c = new
                            THEN [fn |-> "hilo", dist |-> t.rows[i][DistCol(t)],
                                  level |-> level]
                            ELSE t.rows[i][c]]]]

\* fabletools::unpack_hilo(t, col): the interval column col becomes the two
\* columns col_lower and col_upper.
unpack_hilo(t, col) ==
    LET lo == col \o "_lower"
        up == col \o "_upper"
        cols == (t.cols \ {col}) \cup {lo, up}
    IN [t EXCEPT
           !.cols = cols,
           !.types = [c \in cols |-> IF c \in {lo, up} THEN "dbl" ELSE t.types[c]],
           !.rows = [i \in 1..Len(t.rows) |->
                        [c \in cols |->
                            CASE c = lo -> [fn |-> "lower", of |-> t.rows[i][col]]
                              [] c = up -> [fn |-> "upper", of |-> t.rows[i][col]]
                              [] OTHER -> t.rows[i][c]]]]

\* The columns the notebook selects from the forecast.
SelectedColsNoMean == {"State", "Industry", ".model", "95%_lower", "95%_upper"}
SelectedCols == {"State", "Industry", ".model", ".mean", "95%_lower", "95%_upper"}

\* The columns dplyr::select keeps: the named ones, and for a tsibble its
\* index and key as well (select.tbl_ts never drops them).
select_cols_plain(t, names) == names
select_cols(t, names) ==
    IF t.cls \in {"tbl_ts", "fbl_ts"}
    THEN names \cup {t.index} \cup {t.key[k] : k \in 1..Len(t.key)}
    ELSE names

\* DataFrame(t).select(...)
select(t, names) ==
    LET cols == select_cols(t, names)
    IN [t EXCEPT
           !.cols = cols,
           !.types = [c \in cols |-> t.types[c]],
           !.rows = [i \in 1..Len(t.rows) |-> [c \in cols |-> t.rows[i][c]]]]

-----------------------------------------------------------------------------
(* The notebook *)

\* The statements of the notebook, in the order the cells run them.
StepOrder ==
    << "r_cell", "importr", "as_data_frame", "mutate_as_datetime", "rpy2py",
       "filter", "py2rpy", "mutate_yearmonth", "as_tsibble", "model",
       "forecast", "hilo", "unpack_hilo", "select", "as_data_frame_fcst",
       "mutate_fcst", "rpy2py_fcst" >>

Steps == {StepOrder[i] : i \in 1..Len(StepOrder)}

StepIndex(step) == CHOOSE i \in 1..Len(StepOrder) : StepOrder[i] = step

NextPc(step) ==
    IF StepIndex(step) = Len(StepOrder) THEN "done" ELSE StepOrder[StepIndex(step) + 1]

\* The R packages the notebook imports.
Packages == {"base", "tsibble", "fabletools", "fpp3", "tsibbledata", "distributional"}

\* The table each statement works on.
InputOf(step) ==
    CASE step = "r_cell" -> aus_retail
      [] step = "importr" -> NoTable
      [] step = "as_data_frame" -> aus_retail
      [] step = "mutate_as_datetime" -> py.aus_retail_r_df
      [] step = "rpy2py" -> py.aus_retail_r_df
      [] step = "filter" -> py.aus_retail_pdf
      [] step = "py2rpy" -> py.aus_retail_pdf
      [] step = "mutate_yearmonth" -> py.rdf
      [] step = "as_tsibble" -> py.rdf_month
      [] step = "model" -> py.rts
      [] step = "forecast" -> py.r_models
      [] step = "hilo" -> py.r_forecast
      [] step = "unpack_hilo" -> py.fcst_dist
      [] step = "select" -> py.fcst_dist
      [] step = "as_data_frame_fcst" -> py.fcst_select
      [] step = "mutate_fcst" -> py.fcst_r_df
      [] step = "rpy2py_fcst" -> py.r_forecast_date
      [] OTHER -> NoTable

\* The columns each statement names.
ReadsOf(step) ==
    CASE step = "r_cell" -> {"State", "Industry", "Month", "Turnover"}
      [] step = "mutate_as_datetime" -> {"Month"}
      [] step = "filter" -> {"State", "Industry"}
      [] step = "mutate_yearmonth" -> {"Month"}
      [] step = "as_tsibble" -> {"Month", "State", "Industry"}
      [] step = "model" -> SpecReads
      [] step = "hilo" -> {"Turnover"}
      [] step = "unpack_hilo" -> {"95%"}
      [] step = "select" -> SelectedCols
      [] step = "mutate_fcst" -> {"Month"}
      [] OTHER -> {}

ColumnsPresent(step) == ReadsOf(step) \subseteq InputOf(step).cols

NoCall == [input |-> NoTable, specs |-> <<>>, h |-> "none", fable |-> NoTable]

Init ==
    /\ pc = StepOrder[1]
    /\ failedAt = "none"
    /\ cause = "none"
    /\ executed = <<>>
    /\ \E present \in SUBSET (1..Len(SeriesOrder)), start \in StartMonths, n \in 1..MaxLen :
          /\ present # {}
          /\ aus_retail = Dataset(present, start, n)
    /\ rcell = NoCall
    /\ pycall = NoCall
    /\ py = [packages |-> {},
             aus_retail_r_df |-> NoTable, aus_retail_pdf |-> NoTable,
             rdf |-> NoTable, rdf_month |-> NoTable, rts |-> NoTable,
             r_models |-> NoTable, r_forecast |-> NoTable, fcst_dist |-> NoTable,
             fcst_select |-> NoTable, fcst_r_df |-> NoTable,
             r_forecast_date |-> NoTable, forecast_pdf |-> NoTable]

\* The statement returns: the next statement is up.
Returns(step) ==
    /\ pc' = NextPc(step)
    /\ executed' = Append(executed, step)
    /\ UNCHANGED <<failedAt, cause, aus_retail>>

\* The statement raises.  Nothing in the notebook catches it: the run ends.
Raises(step, why) ==
    /\ pc' = "failed"
    /\ failedAt' = step
    /\ cause' = why
    /\ UNCHANGED <<executed, aus_retail, rcell, pycall, py>>

\* A statement on Python variables: raises when a column it names is
\* missing, and binds its result otherwise.
Binds(step, field, value) ==
    IF ColumnsPresent(step)
    THEN /\ py' = [py EXCEPT ![field] = value]
         /\ Returns(step)
         /\ UNCHANGED <<rcell, pycall>>
    ELSE Raises(step, "missing_column")

\* The %r cell: filter, model, forecast, autoplot.
RCell ==
    /\ pc = "r_cell"
    /\ LET input == r_filter(aus_retail)
           specs == ParseSpecs(RSpecTokens)
       IN rcell' = [input |-> input, specs |-> specs, h |-> RHorizon,
                    fable |-> forecast(model(input, specs), RHorizon)]
    /\ Returns("r_cell")
    /\ UNCHANGED <<pycall, py>>

\* base = importr("base") ... distributional = importr("distributional")
ImportR ==
    /\ pc = "importr"
    /\ py' = [py EXCEPT !.packages = Packages]
    /\ Returns("importr")
    /\ UNCHANGED <<rcell, pycall>>

\* aus_retail_r_df = base.as_data_frame(ro.r("tsibbledata::aus_retail"))
AsDataFrame ==
    /\ pc = "as_data_frame"
    /\ Binds("as_data_frame", "aus_retail_r_df", as_data_frame(aus_retail))

\* aus_retail_r_df = DataFrame(aus_retail_r_df).mutate(Month=as_datetime(Month))
MutateAsDatetime ==
    /\ pc = "mutate_as_datetime"
    /\ Binds("mutate_as_datetime", "aus_retail_r_df", mutate_as_datetime(py.aus_retail_r_df))

\* aus_retail_pdf = ro.conversion.rpy2py(aus_retail_r_df)
Rpy2Py ==
    /\ pc = "rpy2py"
    /\ Binds("rpy2py", "aus_retail_pdf", rpy2py(py.aus_retail_r_df))

\* aus_retail_pdf = aus_retail_pdf[State.isin(...) & Industry.isin(...)]
Filter ==
    /\ pc = "filter"
    /\ Binds("filter", "aus_retail_pdf", pdf_filter(py.aus_retail_pdf))

\* rdf = ro.conversion.py2rpy(aus_retail_pdf)
Py2Rpy ==
    /\ pc = "py2rpy"
    /\ Binds("py2rpy", "rdf", py2rpy(py.aus_retail_pdf))

\* DataFrame(rdf).mutate(Month=rl("tsibble::yearmonth(Month)"))
MutateYearmonth ==
    /\ pc = "mutate_yearmonth"
    /\ Binds("mutate_yearmonth", "rdf_month", mutate_yearmonth(py.rdf))

\* rts = tsibble.as_tsibble(..., index="Month", key=['State', 'Industry'])
AsTsibble ==
    /\ pc = "as_tsibble"
    /\ IF valid_tsibble(py.rdf_month, "Month", <<"State", "Industry">>)
       THEN Binds("as_tsibble", "rts",
                  as_tsibble(py.rdf_month, "Month", <<"State", "Industry">>))
       ELSE Raises("as_tsibble",
                   IF ColumnsPresent("as_tsibble") THEN "invalid_tsibble"
                   ELSE "missing_column")

\* r_models = fabletools.model(rts, rl(...), rl(...), rl(...))
Model ==
    /\ pc = "model"
    /\ IF ColumnsPresent("model")
       THEN /\ py' = [py EXCEPT !.r_models = model(py.rts, ParseSpecs(PySpecTokens))]
            /\ pycall' = [pycall EXCEPT !.input = py.rts,
                                        !.specs = ParseSpecs(PySpecTokens)]
            /\ Returns("model")
            /\ UNCHANGED rcell
       ELSE Raises("model", "missing_column")

\* r_forecast = fabletools.forecast(r_models, h="2 years")
Forecast ==
    /\ pc = "forecast"
    /\ py' = [py EXCEPT !.r_forecast = forecast(py.r_models, PyHorizon)]
    /\ pycall' = [pycall EXCEPT !.h = PyHorizon, !.fable = forecast(py.r_models, PyHorizon)]
    /\ Returns("forecast")
    /\ UNCHANGED rcell

\* fcst_dist = distributional.hilo(r_forecast, level=95.0)
Hilo ==
    /\ pc = "hilo"
    /\ Binds("hilo", "fcst_dist", hilo(py.r_forecast, hilo_level))

\* fcst_dist = fabletools.unpack_hilo(fcst_dist, "95%")
UnpackHilo ==
    /\ pc = "unpack_hilo"
    /\ Binds("unpack_hilo", "fcst_dist", unpack_hilo(py.fcst_dist, "95%"))

\* DataFrame(fcst_dist).select("State", ..., "95%_upper")
Select ==
    /\ pc = "select"
    /\ Binds("select", "fcst_select", select(py.fcst_dist, SelectedCols))

\* fcst_r_df = base.as_data_frame(...)
AsDataFrameFcst ==
    /\ pc = "as_data_frame_fcst"
    /\ Binds("as_data_frame_fcst", "fcst_r_df", as_data_frame(py.fcst_select))

\* r_forecast_date = DataFrame(fcst_r_df).mutate(Month=as_datetime(Month))
MutateFcst ==
    /\ pc = "mutate_fcst"
    /\ Binds("mutate_fcst", "r_forecast_date", mutate_as_datetime(py.fcst_r_df))

\* forecast_pdf = ro.conversion.rpy2py(r_forecast_date)
Rpy2PyFcst ==
    /\ pc = "rpy2py_fcst"
    /\ Binds("rpy2py_fcst", "forecast_pdf", rpy2py(py.r_forecast_date))

\* Any call into R, rpy2 or pandas can raise (a missing package, a value
\* that does not convert, a model that cannot be fitted).
FailSwallowed ==
    /\ pc \in Steps
    /\ pc' = NextPc(pc)
    /\ failedAt' = pc
    /\ cause' = "external"
    /\ UNCHANGED <<executed, aus_retail, rcell, pycall, py>>
Fail ==
    /\ pc \in Steps
    /\ Raises(pc, "external")

Next ==
    \/ RCell \/ ImportR \/ AsDataFrame \/ MutateAsDatetime \/ Rpy2Py \/ Filter
    \/ Py2Rpy \/ MutateYearmonth \/ AsTsibble \/ Model \/ Forecast \/ Hilo
    \/ UnpackHilo \/ Select \/ AsDataFrameFcst \/ MutateFcst \/ Rpy2PyFcst
    \/ Fail

Spec == Init /\ [][Next]_vars

-----------------------------------------------------------------------------
(* Properties *)

Executed(step) == \E i \in 1..Len(executed) : executed[i] = step

Count(rows, r) == Cardinality({i \in 1..Len(rows) : rows[i] = r})

NonTemporal == {"State", "Industry", "Turnover"}

\* The calendar month (months since 1970-01) of a Month held in seconds.
CalendarMonthOfSeconds(secs) == MonthIndexOfDay(secs \div 86400)

\* Rows a and b carry the same values outside Month.
SameNonTemporal(a, b) == \A c \in NonTemporal : a[c] = b[c]

\* Table t has the rows of table u, one for one, up to the tagged type of
\* Month: the same values outside Month, the same calendar month.
SameUpToMonthInSeconds(t, u) ==
    /\ t.cols = u.cols
    /\ Len(t.rows) = Len(u.rows)
    /\ \A i \in 1..Len(u.rows) :
          /\ SameNonTemporal(t.rows[i], u.rows[i])
          /\ CalendarMonthOfSeconds(t.rows[i]["Month"]) = MonthIndexOfDay(u.rows[i]["Month"])

\* C1: the round trip.  Each conversion on the way to pandas keeps the row
\* count, the column set and every value outside Month, and Month stays in
\* its calendar month; converting the pandas table back (py2rpy, yearmonth,
\* as_tsibble) gives the time-series table it came from; and the table rts
\* the notebook builds on the way back has the column set and column types
\* of the dataset, as many rows as the pandas table it comes from, and every
\* row of it is a row of the dataset, Month included.
C1_RoundTrip ==
    /\ Executed("as_data_frame") /\ ~Executed("mutate_as_datetime") =>
          /\ py.aus_retail_r_df.rows = aus_retail.rows
          /\ py.aus_retail_r_df.cols = aus_retail.cols
          /\ py.aus_retail_r_df.types = aus_retail.types
    /\ Executed("mutate_as_datetime") =>
          /\ SameUpToMonthInSeconds(py.aus_retail_r_df, aus_retail)
          /\ \A c \in NonTemporal : py.aus_retail_r_df.types[c] = aus_retail.types[c]
    /\ pc = "filter" =>
          /\ SameUpToMonthInSeconds(py.aus_retail_pdf, aus_retail)
          /\ as_tsibble(mutate_yearmonth(py2rpy(py.aus_retail_pdf)),
                        "Month", <<"State", "Industry">>) = aus_retail
    /\ Executed("py2rpy") =>
          /\ py.rdf.rows = py.aus_retail_pdf.rows
          /\ py.rdf.cols = py.aus_retail_pdf.cols
    /\ Bound(py.rts) =>
          /\ py.rts.cols = aus_retail.cols
          /\ py.rts.types = aus_retail.types
          /\ Len(py.rts.rows) = Len(py.aus_retail_pdf.rows)
          /\ \A i \in 1..Len(py.rts.rows) : Count(aus_retail.rows, py.rts.rows[i]) = 1

\* C1 witness: the round trip has run on a table of several rows.
C1_Witness ==
    /\ pc = "model"
    /\ Len(py.rts.rows) >= 2
    /\ Len(aus_retail.rows) > Len(py.rts.rows)

Matches(r) ==
    /\ r["State"] = "New South Wales" \/ r["State"] = "Victoria"
    /\ r["Industry"] = "Department stores"

\* C2: after the Python filter every remaining row has State New South
\* Wales or Victoria and Industry Department stores, every remaining row is
\* a row of the table that was filtered, and every row of that table with
\* such a State and Industry remains, exactly once.
C2_Filter ==
    Executed("filter") =>
        /\ \A i \in 1..Len(py.aus_retail_pdf.rows) :
              /\ Matches(py.aus_retail_pdf.rows[i])
              /\ Count(py.aus_retail_r_df.rows, py.aus_retail_pdf.rows[i]) = 1
        /\ \A i \in 1..Len(py.aus_retail_r_df.rows) :
              Matches(py.aus_retail_r_df.rows[i]) =>
                  Count(py.aus_retail_pdf.rows, py.aus_retail_r_df.rows[i]) = 1

\* C2 witness: the filter has kept some rows and dropped some.
C2_Witness ==
    /\ Executed("filter")
    /\ Len(py.aus_retail_pdf.rows) > 0
    /\ Len(py.aus_retail_pdf.rows) < Len(py.aus_retail_r_df.rows)

\* C3 as stated: the final forecast output has exactly the six selected
\* columns and no other.
C3_ExactlySixColumns ==
    Bound(py.forecast_pdf) =>
        py.forecast_pdf.cols =
            {"State", "Industry", ".model", ".mean", "95%_lower", "95%_upper"}

\* C3 amended: the final forecast output has exactly the six selected
\* columns and the forecast-period column Month.
C3_SixColumnsAndMonth ==
    Bound(py.forecast_pdf) =>
        py.forecast_pdf.cols =
            {"State", "Industry", ".model", ".mean", "95%_lower", "95%_upper", "Month"}

\* C3 witness: a forecast output with rows.
C3_Witness ==
    /\ pc = "done"
    /\ Bound(py.forecast_pdf)
    /\ Len(py.forecast_pdf.rows) > 0

\* The (State, Industry) series of the table handed to model fitting.
SeriesOf(t) == {<<t.rows[i]["State"], t.rows[i]["Industry"]>> : i \in 1..Len(t.rows)}

\* The last observed month of a series, as a month index.
LastMonthIndex(t, s) ==
    SetMax({MonthIndexOfDay(t.rows[i]["Month"]) :
               i \in {j \in 1..Len(t.rows) :
                         <<t.rows[j]["State"], t.rows[j]["Industry"]>> = s}})

\* The tables from forecast on.
ForecastTables ==
    {py.r_forecast, py.fcst_dist, py.fcst_select, py.fcst_r_df,
     py.r_forecast_date, py.forecast_pdf}

C6_KeyUnique ==
    /\ cause # "invalid_tsibble"
    /\ \A t \in {py.rdf_month, py.rts} :
          \A i, j \in 1..Len(t.rows) :
              (/\ t.rows[i]["State"] = t.rows[j]["State"]
               /\ t.rows[i]["Industry"] = t.rows[j]["Industry"]
               /\ t.rows[i]["Month"] = t.rows[j]["Month"]) => i = j

\* C6 witness: rts holds a series of several months.
C6_Witness ==
    /\ Bound(py.rts)
    /\ \E i, j \in 1..Len(py.rts.rows) :
          /\ i # j
          /\ py.rts.rows[i]["State"] = py.rts.rows[j]["State"]
          /\ py.rts.rows[i]["Industry"] = py.rts.rows[j]["Industry"]

Before(a, b) ==
    \E i, j \in 1..Len(executed) : i < j /\ executed[i] = a /\ executed[j] = b

\* C7: when model and forecast are invoked the Month of the table is tagged
\* yearmonth, never the datetime used in transit; and the retagging has run
\* after the return from pandas and before as_tsibble and model.
C7_PeriodType ==
    /\ pc \in {"model", "forecast"} =>
          /\ py.rts.cls = "tbl_ts"
          /\ py.rts.index = "Month"
          /\ py.rts.types["Month"] = "yearmonth"
    /\ Bound(pycall.input) => pycall.input.types["Month"] = "yearmonth"
    /\ Bound(py.r_forecast) => py.r_forecast.types["Month"] = "yearmonth"
    /\ Executed("as_tsibble") =>
          /\ Before("py2rpy", "mutate_yearmonth")
          /\ Before("mutate_yearmonth", "as_tsibble")
    /\ Executed("model") => Before("as_tsibble", "model")

\* C7 witness: forecast is about to be invoked on a fitted table with rows.
C7_Witness ==
    /\ pc = "forecast"
    /\ Len(pycall.input.rows) > 0

IsPrefix(s, t) == Len(s) <= Len(t) /\ \A i \in 1..Len(s) : s[i] = t[i]

\* C9: a failure ends the run: the statement that failed is the one the run
\* stopped at, every statement before it returned once and in order, no
\* statement runs afterwards and no forecast output exists; and a forecast
\* output exists only when every statement returned, once, in order.
C9_ErrorPropagation ==
    /\ IsPrefix(executed, StepOrder)
    /\ failedAt # "none" <=> pc = "failed"
    /\ pc = "failed" =>
          /\ ~Bound(py.forecast_pdf)
          /\ executed = SubSeq(StepOrder, 1, StepIndex(failedAt) - 1)
          /\ ~ENABLED Next
    /\ Bound(py.forecast_pdf) => pc = "done" /\ executed = StepOrder
    /\ pc = "done" => Bound(py.forecast_pdf)

\* C9 witness: a call in the middle of the pipeline has failed.
C9_Witness ==
    /\ pc = "failed"
    /\ failedAt = "forecast"
    /\ cause = "external"

\* C10: every column a statement names is in the table it works on; Month
\* is still in fcst_r_df when Month := as_datetime(Month) is evaluated, the
\* columns 95%_lower and 95%_upper exist after unpack_hilo, and the final
\* output carries Month.
C10_ColumnsExist ==
    /\ cause # "missing_column"
    /\ pc \in Steps => ColumnsPresent(pc)
    /\ pc = "mutate_fcst" => "Month" \in py.fcst_r_df.cols
    /\ Executed("unpack_hilo") => {"95%_lower", "95%_upper"} \subseteq py.fcst_dist.cols
    /\ Bound(py.forecast_pdf) => "Month" \in py.forecast_pdf.cols

\* C10 witness: Month := as_datetime(Month) is about to run on a forecast
\* with rows.
C10_Witness ==
    /\ pc = "mutate_fcst"
    /\ Len(py.fcst_r_df.rows) > 0

=============================================================================
